---- MODULE Spec2Model ----
(***************************************************************************)
(* The activity signup backend of src/app.py and src/models.py as a state  *)
(* machine: the two tables of the store, the startup seeding routine, and  *)
(* the signup and unregister request handlers.                             *)
(*                                                                         *)
(* The Participant table is a bag of rows (email, activity_id).  The       *)
(* primary key of a row only tells apart rows that are otherwise equal,    *)
(* and the handlers never read it: a bag keeps how many such rows exist.   *)
(* The order in which the store returns rows is not modelled.              *)
(***************************************************************************)
EXTENDS Naturals, Sequences, FiniteSets, Bags, TLC

VARIABLES
    activities,    \* the Activity table: a set of rows
    participants,  \* the Participant table: a bag of rows
    started,       \* init_db_and_seed() has run in this process
    last,          \* the most recent call that ran to completion, and its response
    hist,          \* history: the (activity name, email) pairs of successful signups
    sessions       \* the signup requests in flight, one per worker thread

vars == <<activities, participants, started, last, hist, sessions>>

store == <<activities, participants>>

(***************************************************************************)
(* Bounds of the model.                                                    *)
(***************************************************************************)
\* How many emails outside the seed catalog the requests draw from.
NumNewEmails == 9

\* How many of those emails the history-tracking specification uses.
NumHistEmails == 1

NewEmailPool ==
    << "s01@mergington.edu", "s02@mergington.edu", "s03@mergington.edu",
       "s04@mergington.edu", "s05@mergington.edu", "s06@mergington.edu",
       "s07@mergington.edu", "s08@mergington.edu", "s09@mergington.edu",
       "s10@mergington.edu", "s11@mergington.edu", "s12@mergington.edu" >>

NewEmails == { NewEmailPool[i] : i \in 1..NumNewEmails }

\* A name that matches no Activity row.
UnknownName == "Knitting Club"

(***************************************************************************)
(* The seed catalog, in the order of the dictionary literal.               *)
(***************************************************************************)
seed_activities ==
    << [name |-> "Chess Club",
        description |-> "Learn strategies and compete in chess tournaments",
        schedule |-> "Fridays, 3:30 PM - 5:00 PM",
        max_participants |-> 12,
        participants |-> <<"michael@mergington.edu", "daniel@mergington.edu">>],
       [name |-> "Programming Class",
        description |-> "Learn programming fundamentals and build software projects",
        schedule |-> "Tuesdays and Thursdays, 3:30 PM - 4:30 PM",
        max_participants |-> 20,
        participants |-> <<"emma@mergington.edu", "sophia@mergington.edu">>],
       [name |-> "Gym Class",
        description |-> "Physical education and sports activities",
        schedule |-> "Mondays, Wednesdays, Fridays, 2:00 PM - 3:00 PM",
        max_participants |-> 30,
        participants |-> <<"john@mergington.edu", "olivia@mergington.edu">>],
       [name |-> "Soccer Team",
        description |-> "Join the school soccer team and compete in matches",
        schedule |-> "Tuesdays and Thursdays, 4:00 PM - 5:30 PM",
        max_participants |-> 22,
        participants |-> <<"liam@mergington.edu", "noah@mergington.edu">>],
       [name |-> "Basketball Team",
        description |-> "Practice and play basketball with the school team",
        schedule |-> "Wednesdays and Fridays, 3:30 PM - 5:00 PM",
        max_participants |-> 15,
        participants |-> <<"ava@mergington.edu", "mia@mergington.edu">>],
       [name |-> "Art Club",
        description |-> "Explore your creativity through painting and drawing",
        schedule |-> "Thursdays, 3:30 PM - 5:00 PM",
        max_participants |-> 15,
        participants |-> <<"amelia@mergington.edu", "harper@mergington.edu">>],
       [name |-> "Drama Club",
        description |-> "Act, direct, and produce plays and performances",
        schedule |-> "Mondays and Wednesdays, 4:00 PM - 5:30 PM",
        max_participants |-> 20,
        participants |-> <<"ella@mergington.edu", "scarlett@mergington.edu">>],
       [name |-> "Math Club",
        description |-> "Solve challenging problems and participate in math competitions",
        schedule |-> "Tuesdays, 3:30 PM - 4:30 PM",
        max_participants |-> 10,
        participants |-> <<"james@mergington.edu", "benjamin@mergington.edu">>],
       [name |-> "Debate Team",
        description |-> "Develop public speaking and argumentation skills",
        schedule |-> "Fridays, 4:00 PM - 5:30 PM",
        max_participants |-> 12,
        participants |-> <<"charlotte@mergington.edu", "henry@mergington.edu">>] >>

(***************************************************************************)
(* Rows and queries.                                                       *)
(***************************************************************************)
\* Activity(name=..., description=..., schedule=..., max_participants=...)
Activity(id, info) ==
    [id |-> id, name |-> info.name, description |-> info.description,
     schedule |-> info.schedule, max_participants |-> info.max_participants]

\* Participant(email=email, activity_id=activity.id)
Participant(email, activity_id) == [email |-> email, activity_id |-> activity_id]

\* session.add(row); session.commit()
Insert(table, row) == table (+) SetToBag({row})

\* session.delete(row); session.commit()
Delete(table, row) == table (-) SetToBag({row})

\* select(Activity).where(Activity.name == activity_name): the matching rows
SelectActivityUnfiltered(acts, activity_name) == acts

SelectActivity(acts, activity_name) == { a \in acts : a.name = activity_name }

\* .first() of a query result: a row of it (None is modelled by the guard on emptiness)
First(rows) == CHOOSE r \in rows : TRUE

\* select(Participant).where(Participant.activity_id == activity.id).all()
SelectParticipants(table, activity_id) ==
    LET rows == { p \in BagToSet(table) : p.activity_id = activity_id }
    IN  [p \in rows |-> table[p]]

\* select(Participant).where(activity_id == activity.id, email == email)
SelectParticipantAnyEmail(table, activity_id, email) ==
    { p \in BagToSet(table) : p.activity_id = activity_id }

SelectParticipantAnyActivity(table, activity_id, email) ==
    { p \in BagToSet(table) : p.email = email }

SelectParticipant(table, activity_id, email) ==
    { p \in BagToSet(table) : p.activity_id = activity_id /\ p.email = email }

\* any(p.email == email for p in participants)
AlreadySignedUpNever(rows, email) == FALSE

AlreadySignedUp(rows, email) == \E p \in BagToSet(rows) : p.email = email

\* len(participants) >= activity.max_participants
ActivityFullOffByOne(rows, activity) == BagCardinality(rows) > activity.max_participants

ActivityFull(rows, activity) == BagCardinality(rows) >= activity.max_participants

(***************************************************************************)
(* Responses: the status code with the detail of the HTTPException, or 200 *)
(* with the message of the returned payload.                               *)
(***************************************************************************)
Response(status, detail) == [status |-> status, detail |-> detail]

NotFound == Response(404, "Activity not found")
AlreadyMsg == Response(400, "Student is already signed up")
FullMsg == Response(400, "Activity is full")
NotSignedUpMsg == Response(400, "Student is not signed up for this activity")
SignedUp(email, activity_name) ==
    Response(200, "Signed up " \o email \o " for " \o activity_name)
Unregistered(email, activity_name) ==
    Response(200, "Unregistered " \o email \o " from " \o activity_name)

Call(op, activity_name, email, response) ==
    [op |-> op, name |-> activity_name, email |-> email,
     status |-> response.status, detail |-> response.detail]

NoCall == Call("none", "", "", Response(0, ""))

(***************************************************************************)
(* init_db_and_seed                                                        *)
(***************************************************************************)
\* count = session.exec(select(Activity)).first(); if not count:
StoreEmptyAlways(acts) == TRUE

StoreEmpty(acts) == acts = {}

SeedActivities(acts) ==
    acts \cup { Activity(Cardinality(acts) + i, seed_activities[i]) :
                    i \in 1..Len(seed_activities) }

RECURSIVE SeedParticipants(_, _, _)
SeedParticipants(table, base, i) ==
    IF i > Len(seed_activities) THEN table
    ELSE LET emails == seed_activities[i].participants
             rows == [j \in 1..Len(emails) |-> Participant(emails[j], base + i)]
             RECURSIVE AddAll(_, _)
             AddAll(t, j) == IF j > Len(rows) THEN t ELSE AddAll(Insert(t, rows[j]), j + 1)
         IN  SeedParticipants(AddAll(table, 1), base, i + 1)

init_db_and_seed ==
    /\ IF StoreEmpty(activities)
         THEN /\ activities' = SeedActivities(activities)
              /\ participants' = SeedParticipants(participants, Cardinality(activities), 1)
         ELSE UNCHANGED store
    /\ started' = TRUE
    /\ last' = Call("init_db_and_seed", "", "", Response(0, ""))
    /\ UNCHANGED <<hist, sessions>>

(***************************************************************************)
(* signup_for_activity, a request that runs to completion                  *)
(***************************************************************************)
\* lines 149-154 of the handler: the duplicate check, then the capacity check
RosterChecksFullFirst(rows, activity, activity_name, email) ==
    IF ActivityFull(rows, activity) THEN FullMsg
    ELSE IF AlreadySignedUp(rows, email) THEN AlreadyMsg
    ELSE SignedUp(email, activity_name)

RosterChecksNoCapacity(rows, activity, activity_name, email) ==
    IF AlreadySignedUp(rows, email) THEN AlreadyMsg
    ELSE SignedUp(email, activity_name)

RosterChecks(rows, activity, activity_name, email) ==
    IF AlreadySignedUp(rows, email) THEN AlreadyMsg
    ELSE IF ActivityFull(rows, activity) THEN FullMsg
    ELSE SignedUp(email, activity_name)

SignupResponse(acts, table, activity_name, email) ==
    IF SelectActivity(acts, activity_name) = {} THEN NotFound
    ELSE LET activity == First(SelectActivity(acts, activity_name))
         IN  RosterChecks(SelectParticipants(table, activity.id), activity,
                          activity_name, email)

SignupEffect(acts, table, activity_name, email) ==
    IF SignupResponse(acts, table, activity_name, email).status = 200
      THEN Insert(table, Participant(email, First(SelectActivity(acts, activity_name)).id))
      ELSE table

signup_for_activity(activity_name, email) ==
    /\ started
    /\ participants' = SignupEffect(activities, participants, activity_name, email)
    /\ last' = Call("signup", activity_name, email,
                    SignupResponse(activities, participants, activity_name, email))
    /\ UNCHANGED <<activities, started, sessions>>

(***************************************************************************)
(* unregister_from_activity, a request that runs to completion             *)
(***************************************************************************)
UnregisterResponse(acts, table, activity_name, email) ==
    IF SelectActivity(acts, activity_name) = {} THEN NotFound
    ELSE LET activity == First(SelectActivity(acts, activity_name))
         IN  IF SelectParticipant(table, activity.id, email) = {} THEN NotSignedUpMsg
             ELSE Unregistered(email, activity_name)

UnregisterEffect(acts, table, activity_name, email) ==
    IF UnregisterResponse(acts, table, activity_name, email).status = 200
      THEN LET activity == First(SelectActivity(acts, activity_name))
           IN  Delete(table, First(SelectParticipant(table, activity.id, email)))
      ELSE table

unregister_from_activity(activity_name, email) ==
    /\ started
    /\ participants' = UnregisterEffect(activities, participants, activity_name, email)
    /\ last' = Call("unregister", activity_name, email,
                    UnregisterResponse(activities, participants, activity_name, email))
    /\ UNCHANGED <<activities, started, sessions>>

(***************************************************************************)
(* The sequential specification: the process starts on an empty store,     *)
(* may restart at any time, and serves one request at a time.              *)
(***************************************************************************)
Threads == {"t1", "t2"}

NoActivity ==
    Activity(0, [name |-> "", description |-> "", schedule |-> "", max_participants |-> 0])

\* A worker thread's request: where it stands in the handler, its arguments, the
\* Activity row and the roster size it read, and its response once it is done.
Session(pc, activity_name, email, activity, seen, response) ==
    [pc |-> pc, name |-> activity_name, email |-> email, activity |-> activity,
     seen |-> seen, status |-> response.status, detail |-> response.detail]

IdleSession == Session("idle", "", "", NoActivity, 0, Response(0, ""))

NoSessions == [t \in Threads |-> IdleSession]

Init ==
    /\ activities = {}
    /\ participants = EmptyBag
    /\ started = FALSE
    /\ last = NoCall
    /\ hist = {}
    /\ sessions = NoSessions

\* The requests of the sequential specification: every new email against Math
\* Club (capacity 10), one of them against Chess Club, and two of them against a
\* name that matches nothing.
Requests ==
    ({"Math Club"} \X NewEmails)
        \cup ({"Chess Club"} \X {NewEmailPool[1]})
        \cup ({UnknownName} \X {NewEmailPool[1], NewEmailPool[2]})

Startup == init_db_and_seed

Signup == \E rq \in Requests : signup_for_activity(rq[1], rq[2]) /\ UNCHANGED hist

Unregister == \E rq \in Requests : unregister_from_activity(rq[1], rq[2]) /\ UNCHANGED hist

Next == Startup \/ Signup \/ Unregister

Spec == Init /\ [][Next]_vars

(***************************************************************************)
(* The history specification: the sequential specification over fewer      *)
(* requests, among them a seeded participant, recording in hist every      *)
(* successful signup.                                                      *)
(***************************************************************************)
SeededEmail == "james@mergington.edu"

HistRequests ==
    {"Math Club", "Chess Club", UnknownName}
        \X ({SeededEmail} \cup { NewEmailPool[i] : i \in 1..NumHistEmails })

HistSignup ==
    \E rq \in HistRequests :
        /\ signup_for_activity(rq[1], rq[2])
        /\ hist' = IF last'.status = 200 THEN hist \cup {rq} ELSE hist

HistUnregister ==
    \E rq \in HistRequests : unregister_from_activity(rq[1], rq[2]) /\ UNCHANGED hist

HistNext == Startup \/ HistSignup \/ HistUnregister

SpecHist == Init /\ [][HistNext]_vars

(***************************************************************************)
(* The concurrent specification.  Each worker thread runs one signup       *)
(* request at a time in its own session; the queries of a session and its  *)
(* insert-and-commit are separate steps, and the steps of two sessions     *)
(* interleave.  Nothing in the handler takes a lock, and the Participant   *)
(* table has no uniqueness constraint on (activity_id, email).             *)
(* Unregister requests run to completion between those steps.              *)
(***************************************************************************)
\* activity = session.exec(select(Activity).where(...)).first(); if not activity: 404
SignupSelectActivity(t, activity_name, email) ==
    /\ started
    /\ sessions[t].pc \in {"idle", "done"}
    /\ sessions' = [sessions EXCEPT ![t] =
          IF SelectActivity(activities, activity_name) = {}
            THEN Session("done", activity_name, email, NoActivity, 0, NotFound)
            ELSE Session("found", activity_name, email,
                         First(SelectActivity(activities, activity_name)), 0,
                         Response(0, ""))]
    /\ UNCHANGED <<activities, participants, started, last, hist>>

\* participants = session.exec(select(Participant).where(...)).all(), and the two
\* checks on the list that was read
SignupSelectParticipants(t) ==
    /\ sessions[t].pc = "found"
    /\ LET s == sessions[t]
           rows == SelectParticipants(participants, s.activity.id)
           r == RosterChecks(rows, s.activity, s.name, s.email)
       IN  sessions' = [sessions EXCEPT ![t] =
             IF r.status = 200
               THEN Session("checked", s.name, s.email, s.activity,
                            BagCardinality(rows), Response(0, ""))
               ELSE Session("done", s.name, s.email, s.activity,
                            BagCardinality(rows), r)]
    /\ UNCHANGED <<activities, participants, started, last, hist>>

\* new_p = Participant(...); session.add(new_p); session.commit(); return message
CommitInsertRechecked(table, s) ==
    IF BagCardinality(SelectParticipants(table, s.activity.id)) >= s.activity.max_participants
      THEN table
      ELSE Insert(table, Participant(s.email, s.activity.id))

CommitInsert(table, s) == Insert(table, Participant(s.email, s.activity.id))

SignupCommit(t) ==
    /\ sessions[t].pc = "checked"
    /\ LET s == sessions[t]
       IN  /\ participants' = CommitInsert(participants, s)
           /\ sessions' = [sessions EXCEPT ![t] =
                 Session("done", s.name, s.email, s.activity, s.seen,
                         SignedUp(s.email, s.name))]
    /\ UNCHANGED <<activities, started, last, hist>>

\* The store after the first k new emails signed up for Math Club one at a time.
RECURSIVE Prefilled(_)
Prefilled(k) ==
    IF k = 0 THEN SeedParticipants(EmptyBag, 0, 1)
    ELSE SignupEffect(SeedActivities({}), Prefilled(k - 1), "Math Club", NewEmailPool[k])

\* The two emails of the racing requests: the last two new emails.
ConcEmails == { NewEmailPool[NumNewEmails - 1], NewEmailPool[NumNewEmails] }

ConcInit ==
    /\ activities = SeedActivities({})
    /\ \E k \in 0..(NumNewEmails - 2) :
          /\ participants = Prefilled(k)
          /\ last = IF k = 0 THEN Call("init_db_and_seed", "", "", Response(0, ""))
                    ELSE Call("signup", "Math Club", NewEmailPool[k],
                              SignedUp(NewEmailPool[k], "Math Club"))
    /\ started = TRUE
    /\ hist = {}
    /\ sessions = NoSessions

ConcBegin ==
    \E t \in Threads, n \in {"Math Club", UnknownName}, e \in ConcEmails :
        SignupSelectActivity(t, n, e)

ConcRead == \E t \in Threads : SignupSelectParticipants(t)

ConcCommit == \E t \in Threads : SignupCommit(t)

ConcUnregister ==
    \E e \in ConcEmails : unregister_from_activity("Math Club", e) /\ UNCHANGED hist

ConcNext == ConcBegin \/ ConcRead \/ ConcCommit \/ ConcUnregister

SpecConc == ConcInit /\ [][ConcNext]_vars

(***************************************************************************)
(* What the claims speak of.                                               *)
(***************************************************************************)
\* How many Participant rows reference the activity.
RosterSize(table, activity_id) ==
    BagCardinality([p \in { q \in DOMAIN table : q.activity_id = activity_id } |-> table[p]])

\* Whether a Participant row links the email to the activity.
Enrolled(table, activity_id, email) ==
    \E p \in DOMAIN table : p.activity_id = activity_id /\ p.email = email

\* The activities whose name is the given one.
Named(activity_name) == { a \in activities : a.name = activity_name }

\* The (activity name, email) pairs the seed catalog enrols.
SeedPairs ==
    UNION { { <<seed_activities[i].name, seed_activities[i].participants[j]>> :
                j \in 1..Len(seed_activities[i].participants) } :
            i \in 1..Len(seed_activities) }

\* The last completed call is a request with this response.
LastIs(op, response) ==
    last.op = op /\ last.status = response.status /\ last.detail = response.detail

(***************************************************************************)
(* C1: served one request at a time from the seeded store, no activity     *)
(* ever has more Participant rows than its max_participants.               *)
(***************************************************************************)
C1_CapacityNeverExceeded ==
    \A a \in activities : RosterSize(participants, a.id) <= a.max_participants

\* A successful signup has just filled an activity to its capacity.
C1_Witness ==
    /\ last.op = "signup" /\ last.status = 200
    /\ \E a \in Named(last.name) :
          /\ RosterSize(participants, a.id) = a.max_participants
          /\ Enrolled(participants, a.id, last.email)

(***************************************************************************)
(* C2: served one request at a time, no (activity, email) pair ever has    *)
(* two Participant rows; and a signup that repeats the successful signup   *)
(* just before it is answered 400 "already signed up" and adds no row.     *)
(***************************************************************************)
C2_NoDuplicate == \A p \in DOMAIN participants : CopiesIn(p, participants) <= 1

C2_RepeatedSignup ==
    (/\ last.op = "signup" /\ last.status = 200
     /\ last'.op = "signup" /\ last'.name = last.name /\ last'.email = last.email)
        => /\ last'.status = 400
           /\ last'.detail = "Student is already signed up"
           /\ participants' = participants

C2_NoDuplicateEnrollment == []C2_NoDuplicate /\ [][C2_RepeatedSignup]_vars

\* A signup was refused as a duplicate, and the one row of the pair is there.
C2_Witness ==
    /\ LastIs("signup", AlreadyMsg)
    /\ \E a \in Named(last.name) :
          CopiesIn(Participant(last.email, a.id), participants) = 1

(***************************************************************************)
(* C3: signup reports the first precondition that fails, in the order      *)
(* activity exists, email not yet enrolled, roster below capacity: 404 for *)
(* an unknown name; 400 "already signed up" for an enrolled email even in  *)
(* a full activity; 400 "full" exactly when the activity exists, the email *)
(* is not enrolled and the roster has reached max_participants.            *)
(***************************************************************************)
C3_Step ==
    last'.op = "signup" =>
        /\ (Named(last'.name) = {}) <=>
               (last'.status = NotFound.status /\ last'.detail = NotFound.detail)
        /\ \A a \in Named(last'.name) :
              LET enrolled == Enrolled(participants, a.id, last'.email)
                  full == RosterSize(participants, a.id) >= a.max_participants
              IN  /\ enrolled <=>
                        (last'.status = 400 /\ last'.detail = AlreadyMsg.detail)
                  /\ (~enrolled /\ full) <=>
                        (last'.status = 400 /\ last'.detail = FullMsg.detail)

C3_PreconditionOrder == [][C3_Step]_vars

\* A signup of an enrolled email to a full activity was answered "already signed up".
C3_Witness ==
    /\ LastIs("signup", AlreadyMsg)
    /\ \E a \in Named(last.name) :
          RosterSize(participants, a.id) >= a.max_participants

(***************************************************************************)
(* C4, as stated: for an existing activity A and any email E with no       *)
(* successful signup(A, E) earlier in the history, unregister(A, E) is     *)
(* answered 400 "not signed up".  The emails of the seed catalog refute    *)
(* it: the seeding routine enrols them without a signup.                   *)
(***************************************************************************)
C4_UnregisterStep(exempt) ==
    (/\ last'.op = "unregister"
     /\ Named(last'.name) # {}
     /\ <<last'.name, last'.email>> \notin hist
     /\ <<last'.name, last'.email>> \notin exempt)
        => /\ last'.status = 400
           /\ last'.detail = NotSignedUpMsg.detail
           /\ participants' = participants

C4_Original == [][C4_UnregisterStep({})]_vars

(***************************************************************************)
(* C4, amended: for an existing activity A and any email E that the        *)
(* seeding routine did not enrol in A and that no successful signup(A, E)  *)
(* enrolled earlier in the history, unregister(A, E) is answered 400       *)
(* "not signed up" and removes nothing.                                    *)
(***************************************************************************)
C4_UnregisterNeverEnrolled == [][C4_UnregisterStep(SeedPairs)]_vars

\* After some successful signups, an unregister of a pair that was neither seeded
\* nor ever signed up was refused.
C4_Witness ==
    /\ LastIs("unregister", NotSignedUpMsg)
    /\ Named(last.name) # {}
    /\ <<last.name, last.email>> \notin (hist \cup SeedPairs)
    /\ hist # {}

(***************************************************************************)
(* C5: a signup or unregister whose activity name matches no Activity row  *)
(* is answered 404 whatever the email, and leaves both tables as they were.*)
(***************************************************************************)
C5_Step ==
    (last'.op \in {"signup", "unregister"} /\ Named(last'.name) = {})
        => /\ last'.status = 404
           /\ last'.detail = "Activity not found"
           /\ activities' = activities
           /\ participants' = participants

C5_UnknownActivityNotFound == [][C5_Step]_vars

\* An unregister against an unknown name was answered 404, for an email that is
\* enrolled in an activity.
C5_Witness ==
    /\ LastIs("unregister", NotFound)
    /\ Named(last.name) = {}
    /\ \E p \in DOMAIN participants : p.email = last.email

(***************************************************************************)
(* C6: a signup of a not-enrolled email to an activity whose roster is at  *)
(* max_participants is answered 400 "full" and adds nothing; and when a    *)
(* successful unregister has just left the roster one below capacity, the  *)
(* next signup of a not-enrolled email succeeds and brings the roster to   *)
(* exactly max_participants.                                               *)
(***************************************************************************)
C6_Step ==
    \A a \in activities :
        (/\ last'.op = "signup" /\ last'.name = a.name
         /\ ~Enrolled(participants, a.id, last'.email))
            => /\ (RosterSize(participants, a.id) = a.max_participants)
                      => /\ last'.status = 400
                         /\ last'.detail = "Activity is full"
                         /\ participants' = participants
               /\ (/\ RosterSize(participants, a.id) = a.max_participants - 1
                   /\ last.op = "unregister" /\ last.status = 200
                   /\ last.name = a.name)
                      => /\ last'.status = 200
                         /\ RosterSize(participants', a.id) = a.max_participants
                         /\ Enrolled(participants', a.id, last'.email)

C6_FullThenReopen == [][C6_Step]_vars

\* A signup of a not-enrolled email to an activity at capacity was refused as full.
C6_Witness ==
    /\ LastIs("signup", FullMsg)
    /\ \E a \in Named(last.name) :
          /\ RosterSize(participants, a.id) = a.max_participants
          /\ ~Enrolled(participants, a.id, last.email)

(***************************************************************************)
(* C7: the seeding routine run on a store that holds an Activity inserts   *)
(* nothing: both tables are the same after it as before it.                *)
(***************************************************************************)
C7_Step ==
    (last'.op = "init_db_and_seed" /\ activities # {})
        => /\ activities' = activities
           /\ participants' = participants

C7_SeedIdempotent == [][C7_Step]_vars

\* The seeding routine has run again on a store that signups had changed.
C7_Witness ==
    /\ last.op = "init_db_and_seed"
    /\ activities = SeedActivities({})
    /\ participants # SeedParticipants(EmptyBag, 0, 1)

(***************************************************************************)
(* C8: with the roster read and the insert-and-commit of a signup as       *)
(* separate steps and no lock, two sessions with different emails can both *)
(* pass the capacity check of an activity with one open seat, and their    *)
(* commits then leave the activity over its capacity: the commit of a      *)
(* session that passed its checks inserts its row whatever the roster has  *)
(* become since the session read it.                                       *)
(***************************************************************************)
C8_BothPassed(t1, t2) ==
    /\ t1 # t2
    /\ sessions[t1].activity = sessions[t2].activity
    /\ sessions[t1].email # sessions[t2].email
    /\ sessions[t1].seen = sessions[t1].activity.max_participants - 1
    /\ sessions[t2].seen = sessions[t2].activity.max_participants - 1

C8_RaceOpen ==
    \A t1, t2 \in Threads :
        (/\ C8_BothPassed(t1, t2)
         /\ sessions[t1].pc = "checked" /\ sessions[t2].pc = "checked"
         /\ RosterSize(participants, sessions[t1].activity.id)
                = sessions[t1].activity.max_participants - 1)
            => RosterSize(CommitInsert(CommitInsert(participants, sessions[t1]),
                                       sessions[t2]),
                          sessions[t1].activity.id)
                   > sessions[t1].activity.max_participants

C8_CommitStep ==
    \A t \in Threads :
        (sessions[t].pc = "checked" /\ sessions'[t].pc = "done")
            => /\ sessions'[t].status = 200
               /\ participants' = participants
                     (+) SetToBag({Participant(sessions[t].email, sessions[t].activity.id)})

C8_CapacityRace == []C8_RaceOpen /\ [][C8_CommitStep]_vars

\* Both sessions read a roster with one open seat, both were answered 200, and
\* the activity now holds more rows than its capacity.
C8_Witness ==
    \E t1, t2 \in Threads :
        /\ C8_BothPassed(t1, t2)
        /\ sessions[t1].pc = "done" /\ sessions[t1].status = 200
        /\ sessions[t2].pc = "done" /\ sessions[t2].status = 200
        /\ RosterSize(participants, sessions[t1].activity.id)
               > sessions[t1].activity.max_participants

(***************************************************************************)
(* C9: a signup or unregister is all-or-nothing.  A call answered 404 or   *)
(* 400 leaves both tables as they were; a successful signup(A, E) adds     *)
(* exactly the one row (E, A); a successful unregister(A, E) removes       *)
(* exactly one row (E, A); every other row and the Activity table are      *)
(* unchanged.                                                              *)
(***************************************************************************)
C9_Step ==
    last'.op \in {"signup", "unregister"} =>
        /\ activities' = activities
        /\ last'.status \in {200, 400, 404}
        /\ last'.status # 200 => participants' = participants
        /\ (last'.op = "signup" /\ last'.status = 200) =>
              \E a \in Named(last'.name) :
                  participants' = participants
                      (+) SetToBag({Participant(last'.email, a.id)})
        /\ (last'.op = "unregister" /\ last'.status = 200) =>
              \E a \in Named(last'.name) :
                  /\ participants = participants'
                        (+) SetToBag({Participant(last'.email, a.id)})
                  /\ BagCardinality(participants') = BagCardinality(participants) - 1

C9_AllOrNothing == [][C9_Step]_vars

\* An email was unregistered from one activity and is still enrolled in another.
C9_Witness ==
    /\ last.op = "unregister" /\ last.status = 200
    /\ \E a \in Named(last.name) : ~Enrolled(participants, a.id, last.email)
    /\ \E p \in DOMAIN participants : p.email = last.email

(***************************************************************************)
(* C10: when signup requests interleave, no (activity, email) pair ever    *)
(* has two Participant rows, so that after a successful unregister(A, E)   *)
(* the email E is absent from the roster of A.                             *)
(***************************************************************************)
C10_NoDuplicateWhenInterleaved ==
    /\ \A p \in DOMAIN participants : CopiesIn(p, participants) <= 1
    /\ (last.op = "unregister" /\ last.status = 200) =>
          \A a \in Named(last.name) : ~Enrolled(participants, a.id, last.email)

====
